---- MODULE Spec2Model ----
(***************************************************************************)
(* Model of the Twitter/X archive to DayOne converter (src/convert.py).    *)
(*                                                                         *)
(* Text is modelled as a sequence of symbols.  File names, URLs and tweet  *)
(* ids are sequences of one-character strings, so that split('/'),         *)
(* split('.') and glob patterns are computed as the code computes them.    *)
(* Entry text and the serialized journal are sequences of coarser symbols: *)
(* "M" stands for the literal "dayone-moment:", "![](" and ")" for the     *)
(* markdown image brackets, "NL2" for the two line feeds "\n\n", "video"   *)
(* for the path word, "/" and "\\" for themselves, and a digest such as    *)
(* "h1" for the 32 hex characters of an MD5 digest.  "dayone-moment:" has  *)
(* no proper border (its first character 'd' occurs only once), so         *)
(* treating it as one symbol loses no overlapping match of str.replace.    *)
(*                                                                         *)
(* File contents are the opaque values "c0", "c1", "c2".  The optional     *)
(* width and height of a media item and the hashtags of a tweet take no    *)
(* part in staging, text or packaging and are left out of the records.     *)
(***************************************************************************)
(* Spec is one run of the command: load_twitter_data, then                 *)
(* create_export_zip, which a KeyboardInterrupt may end at any of its      *)
(* steps.  SpecFind is one call of find_media_file on its own.             *)
(***************************************************************************)
EXTENDS Integers, Sequences, FiniteSets, TLC

VARIABLES
    archive_tweets,  \* the parsed payload of <archive>/data/tweets.js on disk
    media_path,      \* listing of <archive>/data/tweets_media, in directory order
    tweets,          \* self.tweets
    media_errors,    \* self.media_errors
    fs,              \* the staging tree temp_export/ on disk
    entries,         \* local `entries` of create_export_zip
    out_zip,         \* the file at output_path
    pc,              \* position of the run
    exc,             \* the exception in flight or propagated to the caller
    fm_item,         \* argument of a direct find_media_file call
    fm_result        \* its return value

vars == <<archive_tweets, media_path, tweets, media_errors, fs, entries,
          out_zip, pc, exc, fm_item, fm_result>>

(***************************************************************************)
(* Bounds of the model.                                                    *)
(***************************************************************************)
MaxTweets == 2
MaxMedia == 2
MaxFiles == 2

(***************************************************************************)
(* Strings.                                                                *)
(***************************************************************************)
None == [none |-> TRUE]

Contains(s, c) == \E i \in 1..Len(s) : s[i] = c

\* s.split(sep)[-1]
RECURSIVE SplitLast(_, _)
SplitLast(s, sep) ==
    IF s = <<>> THEN <<>>
    ELSE IF s[Len(s)] = sep THEN <<>>
    ELSE Append(SplitLast(SubSeq(s, 1, Len(s) - 1), sep), s[Len(s)])

\* s.split(sep)[0]
RECURSIVE SplitFirst(_, _)
SplitFirst(s, sep) ==
    IF s = <<>> THEN <<>>
    ELSE IF Head(s) = sep THEN <<>>
    ELSE <<Head(s)>> \o SplitFirst(Tail(s), sep)

\* fnmatch of one path component against a pattern whose only wildcard is '*'
RECURSIVE GlobMatch(_, _)
GlobMatch(name, pat) ==
    IF pat = <<>> THEN name = <<>>
    ELSE IF Head(pat) = "*"
         THEN GlobMatch(name, Tail(pat))
              \/ (name # <<>> /\ GlobMatch(Tail(name), pat))
         ELSE name # <<>> /\ Head(name) = Head(pat)
              /\ GlobMatch(Tail(name), Tail(pat))

\* list(directory.glob(pat)): the matching files in directory order
RECURSIVE Glob(_, _)
Glob(dir, pat) ==
    IF dir = <<>> THEN <<>>
    ELSE (IF GlobMatch(Head(dir).name, pat) THEN <<Head(dir)>> ELSE <<>>)
         \o Glob(Tail(dir), pat)

\* (directory / name).exists(), for a non-empty name
Exists(dir, name) == \E i \in 1..Len(dir) : dir[i].name = name

PathOf(dir, name) == dir[CHOOSE i \in 1..Len(dir) : dir[i].name = name]

(***************************************************************************)
(* TwitterToDayOne.find_media_file                                         *)
(***************************************************************************)
possible_names(media_item) ==
    LET media_url == media_item.media_url_https
        tweet_id  == media_item.id_str
        base      == SplitLast(media_url, "/")
    IN  << tweet_id \o <<"-">> \o base,
           base,
           tweet_id \o <<"-">> \o SplitFirst(base, ".") \o <<".", "*">> >>

RECURSIVE TryNames(_, _)
TryNames(names, dir) ==
    IF names = <<>> THEN None
    ELSE LET name == Head(names) IN
         IF Contains(name, "*")
         THEN LET matches == Glob(dir, name) IN
              IF matches # <<>> THEN matches[1] ELSE TryNames(Tail(names), dir)
         ELSE IF Exists(dir, name) THEN PathOf(dir, name)
              ELSE TryNames(Tail(names), dir)

\* a plausible slip: the bare media name is tried before the canonical one
find_media_file_swapped(media_item, dir) ==
    LET n == possible_names(media_item) IN TryNames(<<n[2], n[1], n[3]>>, dir)

find_media_file(media_item, dir) == TryNames(possible_names(media_item), dir)

(***************************************************************************)
(* Dates, digests and the staging tree.                                    *)
(***************************************************************************)
\* datetime.strptime(created_at, '%a %b %d %H:%M:%S %z %Y'): a string in the
\* source format is <<"twitter", d>>; anything else raises ValueError
ParsesAsDate(created_at) == Len(created_at) = 2 /\ created_at[1] = "twitter"

strptime(created_at) == created_at[2]

\* tweet_date.strftime("%Y-%m-%dT%H:%M:%SZ")
strftime(tweet_date) == <<"iso", tweet_date>>

\* hashlib.md5(content).hexdigest(); distinct contents of the model have
\* distinct digests (no MD5 collision among the files of one archive)
md5(content) ==
    CASE content = "c1" -> "h1"
      [] content = "c2" -> "h2"
      [] OTHER -> "h0"

File(name, bytes) == [name |-> name, bytes |-> bytes]

EmptyFs == [temp |-> FALSE, photos |-> FALSE, videos |-> FALSE,
            root_files |-> {}, photo_files |-> {}, video_files |-> {}]

\* shutil.copy2(src, dest_dir / name): an existing file of that name is replaced
CopyInto(files, name, bytes) ==
    {f \in files : f.name # name} \cup {File(name, bytes)}

(***************************************************************************)
(* TwitterToDayOne.process_media                                           *)
(***************************************************************************)
\* the destination of the copy, by a slip always the photos directory
StageCopy_photos(fsys, is_video, media_md5, content) ==
    [fsys EXCEPT !.temp = TRUE, !.photos = TRUE,
                 !.photo_files = CopyInto(@, <<media_md5, ".jpg">>, content)]

\* dest_path.parent.mkdir(parents=True, exist_ok=True); shutil.copy2(...)
StageCopy(fsys, is_video, media_md5, content) ==
    IF is_video
    THEN [fsys EXCEPT !.temp = TRUE, !.videos = TRUE,
                      !.video_files = CopyInto(@, <<media_md5, ".mp4">>, content)]
    ELSE [fsys EXCEPT !.temp = TRUE, !.photos = TRUE,
                      !.photo_files = CopyInto(@, <<media_md5, ".jpg">>, content)]

moment_url(is_video, media_md5) ==
    IF is_video
    THEN <<"![](", "M", "/", "video", "/", media_md5, ")">>
    ELSE <<"![](", "M", "/", "/", media_md5, ")">>

\* a plausible slip: the item is skipped without recording the warning
record_error_dropped(errors, media_item) == errors

\* self.media_errors.append(error_msg): the message names id_str and the URL
record_error(errors, media_item) ==
    Append(errors, <<media_item.id_str, media_item.media_url_https>>)

process_media(media_item, tweet_date, dir, fsys, errors) ==
    LET local_media_path == find_media_file(media_item, dir) IN
    IF local_media_path = None
    THEN [metadata |-> None, url |-> <<>>, fs |-> fsys,
          errors |-> record_error(errors, media_item)]
    ELSE LET media_content == local_media_path.bytes
             media_md5 == md5(media_content)
             is_video  == media_item.type = "video"
         IN  [metadata |-> [identifier |-> media_md5,
                            date |-> strftime(tweet_date),
                            type |-> IF is_video THEN "mp4" ELSE "jpg",
                            md5 |-> media_md5],
              url |-> moment_url(is_video, media_md5),
              fs |-> StageCopy(fsys, is_video, media_md5, media_content),
              errors |-> errors]

(***************************************************************************)
(* TwitterToDayOne.convert_tweet_to_entry                                  *)
(***************************************************************************)
\* media['order'] = idx; media['id_str'] = tweet.get('id_str', '')
TagMedia(media, idx, tweet) ==
    [k \in DOMAIN media \cup {"order"} |->
        IF k = "order" THEN idx
        ELSE IF k = "id_str" THEN tweet.id_str
        ELSE media[k]]

\* the loop over the media entities, from entity k on; acc holds the locals
\* text_parts, photos, videos and the state the loop changes
RECURSIVE MediaLoop(_, _, _, _, _)
MediaLoop(k, tweet, tweet_date, dir, acc) ==
    IF k > Len(acc.media) THEN acc
    ELSE LET media == TagMedia(acc.media[k], k - 1, tweet)
             r == process_media(media, tweet_date, dir, acc.fs, acc.errors)
             got == r.metadata # None
         IN  MediaLoop(k + 1, tweet, tweet_date, dir,
                [media |-> [acc.media EXCEPT ![k] = media],
                 text_parts |-> IF got THEN Append(acc.text_parts, r.url)
                                ELSE acc.text_parts,
                 photos |-> IF got /\ r.metadata.type # "mp4"
                            THEN Append(acc.photos, r.metadata) ELSE acc.photos,
                 videos |-> IF got /\ r.metadata.type = "mp4"
                            THEN Append(acc.videos, r.metadata) ELSE acc.videos,
                 fs |-> r.fs,
                 errors |-> r.errors])

\* a plausible slip: the parts joined with nothing between them
RECURSIVE Join_plain(_)
Join_plain(parts) ==
    IF parts = <<>> THEN <<>> ELSE Head(parts) \o Join_plain(Tail(parts))

\* '\n\n'.join(text_parts)
RECURSIVE Join(_)
Join(parts) ==
    IF Len(parts) = 1 THEN parts[1]
    ELSE Head(parts) \o <<"NL2">> \o Join(Tail(parts))

\* the entry, the record as the call leaves it, and the state it changed;
\* called only for a tweet whose created_at parses
convert_tweet_to_entry(tweet, uuid, dir, fsys, errors) ==
    LET tweet_date == strptime(tweet.created_at)
        entry == [creationDate |-> strftime(tweet_date),
                  uuid |-> uuid,
                  starred |-> FALSE,
                  text |-> tweet.full_text,
                  tags |-> <<>>,
                  photos |-> <<>>,
                  videos |-> <<>>]
    IN  IF tweet.has_media
        THEN LET acc == MediaLoop(1, tweet, tweet_date, dir,
                            [media |-> tweet.media,
                             text_parts |-> <<entry.text>>,
                             photos |-> <<>>, videos |-> <<>>,
                             fs |-> fsys, errors |-> errors])
             IN  [entry |-> [entry EXCEPT !.photos = acc.photos,
                                          !.videos = acc.videos,
                                          !.text = Join(acc.text_parts)],
                  tweet |-> [tweet EXCEPT !.media = acc.media],
                  fs |-> acc.fs,
                  errors |-> acc.errors]
        ELSE [entry |-> entry, tweet |-> tweet, fs |-> fsys, errors |-> errors]

(***************************************************************************)
(* DayOneJSONEncoder and json.dump                                         *)
(***************************************************************************)
\* a plausible slip: the chunk passed through without the replacement
Replace_none(s) == s

\* chunk.replace('dayone-moment://', 'dayone-moment:\\/\\/')
RECURSIVE Replace(_)
Replace(s) ==
    IF s = <<>> THEN <<>>
    ELSE IF Len(s) >= 3 /\ s[1] = "M" /\ s[2] = "/" /\ s[3] = "/"
         THEN <<"M", "\\", "/", "\\", "/">> \o Replace(SubSeq(s, 4, Len(s)))
         ELSE <<Head(s)>> \o Replace(Tail(s))

\* the JSON encoding of one character of a string
JsonChar(c) ==
    CASE c = "NL2" -> <<"\\n", "\\n">>
      [] c = "\\"  -> <<"\\", "\\">>
      [] c = "\""  -> <<"\\", "\"">>
      [] OTHER     -> <<c>>

RECURSIVE JsonEscape(_)
JsonEscape(s) ==
    IF s = <<>> THEN <<>> ELSE JsonChar(Head(s)) \o JsonEscape(Tail(s))

\* the chunk json yields for a string: the quoted, escaped text
JsonString(s) == <<"\"">> \o JsonEscape(s) \o <<"\"">>

RECURSIVE MetaChunks(_)
MetaChunks(metas) ==
    IF metas = <<>> THEN <<>>
    ELSE << JsonString(<<"identifier">>), JsonString(<<Head(metas).identifier>>),
            JsonString(<<"type">>), JsonString(<<Head(metas).type>>),
            JsonString(<<"md5">>), JsonString(<<Head(metas).md5>>) >>
         \o MetaChunks(Tail(metas))

EntryChunks(e) ==
    << JsonString(<<"creationDate">>), JsonString(e.creationDate),
       JsonString(<<"uuid">>), JsonString(<<e.uuid>>),
       JsonString(<<"text">>), JsonString(e.text),
       JsonString(<<"photos">>) >> \o MetaChunks(e.photos)
    \o << JsonString(<<"videos">>) >> \o MetaChunks(e.videos)

RECURSIVE EntriesChunks(_)
EntriesChunks(es) ==
    IF es = <<>> THEN <<>> ELSE EntryChunks(Head(es)) \o EntriesChunks(Tail(es))

\* JSONEncoder.iterencode(journal_data): the string chunks, in document order
\* (punctuation and indentation chunks hold no text and are left out)
JsonChunks(journal_data) ==
    << JsonString(<<"metadata">>), JsonString(<<"version">>), JsonString(<<"1.0">>),
       JsonString(<<"entries">>) >> \o EntriesChunks(journal_data.entries)

\* DayOneJSONEncoder.iterencode written chunk by chunk to the file
RECURSIVE iterencode(_)
iterencode(chunks) ==
    IF chunks = <<>> THEN <<>>
    ELSE Replace(Head(chunks)) \o iterencode(Tail(chunks))

(***************************************************************************)
(* The archives and the disk states a run starts from.                     *)
(***************************************************************************)
Digits == <<"1", "2", "3", "4">>
DateSyms == <<"d1", "d2", "d3", "d4">>
TextSyms == <<"t1", "t2", "t3", "t4">>

TweetId(i) == <<Digits[i]>>

\* the second tweet quotes an inline locator in its own text
FullText(i) ==
    IF i = 2 THEN <<TextSyms[i], "M", "/", "/", "x">> ELSE <<TextSyms[i]>>

UrlA == <<"h", "/", "a", ".", "j">>
UrlV == <<"h", "/", "v", ".", "m">>

\* a media entity as exported: its own id_str is the media id
MediaKinds ==
    { [media_url_https |-> UrlA, type |-> "photo", id_str |-> <<"9">>],
      [media_url_https |-> UrlV, type |-> "video", id_str |-> <<"9">>] }

\* the media list of a tweet that has extended_entities
MediaSeqs == UNION { [1..n -> MediaKinds] : n \in 1..MaxMedia }

Tweet(i, created_at, has_media, media) ==
    [id_str |-> TweetId(i), created_at |-> created_at, full_text |-> FullText(i),
     has_media |-> has_media, media |-> media]

TweetsAt(i) ==
    { Tweet(i, <<"twitter", DateSyms[i]>>, TRUE, m) : m \in MediaSeqs }
    \cup { Tweet(i, <<"twitter", DateSyms[i]>>, FALSE, <<>>),
           Tweet(i, <<"garbage">>, FALSE, <<>>) }

RECURSIVE TweetLists(_)
TweetLists(n) ==
    IF n = 0 THEN {<<>>}
    ELSE LET S == TweetLists(n - 1) IN
         S \cup { Append(s, t) : s \in {x \in S : Len(x) = n - 1},
                                 t \in TweetsAt(n) }

\* a tweet without extended_entities has no media list; the run stops at the
\* first tweet whose date does not parse, before its media are looked at, so
\* at most one such tweet is given and it is given without media
ArchiveInputs ==
    { s \in TweetLists(MaxTweets) :
        Cardinality({i \in 1..Len(s) : ~ParsesAsDate(s[i].created_at)}) <= 1 }

MediaDirs ==
    { << File(<<"1", "-", "a", ".", "j">>, "c1"), File(<<"v", ".", "m">>, "c2") >>,
      << File(<<"a", ".", "j">>, "c1"), File(<<"2", "-", "v", ".", "x">>, "c1") >> }

\* what an earlier run that was stopped before its cleanup left on disk
StaleFs == [temp |-> TRUE, photos |-> TRUE, videos |-> TRUE,
            root_files |-> {},
            photo_files |-> {File(<<"h0", ".jpg">>, "c0")},
            video_files |-> {}]

\* the file already at output_path, from an earlier export
PriorArchive == [json_name |-> <<"out", ".json">>, json |-> <<"prior">>,
                 photos |-> {}, videos |-> {}]

NoItem == [media_url_https |-> <<>>, id_str |-> <<>>]

Init ==
    /\ archive_tweets \in ArchiveInputs
    /\ media_path \in MediaDirs
    /\ fs \in {EmptyFs, StaleFs}
    /\ tweets = <<>>
    /\ media_errors = <<>>
    /\ entries = <<>>
    /\ out_zip = PriorArchive
    /\ pc = "new"
    /\ exc = "none"
    /\ fm_item = NoItem
    /\ fm_result = None

(***************************************************************************)
(* TwitterToDayOne.load_twitter_data                                       *)
(***************************************************************************)
load_twitter_data ==
    /\ pc = "new"
    /\ tweets' = archive_tweets
    /\ pc' = "loaded"
    /\ UNCHANGED <<archive_tweets, media_path, media_errors, fs, entries,
                   out_zip, exc, fm_item, fm_result>>

(***************************************************************************)
(* TwitterToDayOne.create_export_zip, step by step                         *)
(***************************************************************************)
\* self.media_errors = []; then the three mkdir(parents=True, exist_ok=True)
\* calls: what is on disk already is kept
MakeDirs ==
    /\ pc = "loaded"
    /\ media_errors' = <<>>
    /\ fs' = [fs EXCEPT !.temp = TRUE, !.photos = TRUE, !.videos = TRUE]
    /\ pc' = "try"
    /\ UNCHANGED <<archive_tweets, media_path, tweets, entries, out_zip, exc,
                   fm_item, fm_result>>

\* a plausible slip: the output archive opened for writing before the
\* tweets are converted
EnterTry_opens_zip ==
    /\ pc = "try"
    /\ entries' = <<>>
    /\ out_zip' = [json_name |-> <<"out", ".json">>, json |-> <<>>,
                   photos |-> {}, videos |-> {}]
    /\ pc' = "convert"
    /\ UNCHANGED <<archive_tweets, media_path, tweets, media_errors, fs,
                   exc, fm_item, fm_result>>

\* try: entries = []
EnterTry ==
    /\ pc = "try"
    /\ entries' = <<>>
    /\ pc' = "convert"
    /\ UNCHANGED <<archive_tweets, media_path, tweets, media_errors, fs,
                   out_zip, exc, fm_item, fm_result>>

UuidSyms == <<"U1", "U2", "U3", "U4">>

\* a plausible slip: the new entry put in front of the list
AddEntry_front(es, entry) == <<entry>> \o es

\* entries.append(entry)
AddEntry(es, entry) == Append(es, entry)

\* one turn of the loop: entry = self.convert_tweet_to_entry(tweet_data)
ConvertNext ==
    /\ pc = "convert"
    /\ Len(entries) < Len(tweets)
    /\ LET i == Len(entries) + 1
           tweet == tweets[i]
       IN  IF ~ParsesAsDate(tweet.created_at)
           THEN /\ exc' = "ValueError"
                /\ pc' = "finally"
                /\ UNCHANGED <<tweets, media_errors, fs, entries>>
           ELSE LET r == convert_tweet_to_entry(tweet, UuidSyms[i], media_path,
                                                fs, media_errors)
                IN  /\ entries' = AddEntry(entries, r.entry)
                    /\ tweets' = [tweets EXCEPT ![i] = r.tweet]
                    /\ fs' = r.fs
                    /\ media_errors' = r.errors
                    /\ UNCHANGED <<pc, exc>>
    /\ UNCHANGED <<archive_tweets, media_path, out_zip, fm_item, fm_result>>

json_filename == <<"out", ".json">>

\* journal_data = {...}; json.dump(journal_data, f, indent=2, cls=DayOneJSONEncoder)
WriteJson ==
    /\ pc = "convert"
    /\ Len(entries) = Len(tweets)
    /\ LET journal_data == [metadata |-> [version |-> "1.0"], entries |-> entries]
       IN  fs' = [fs EXCEPT !.root_files =
                     CopyInto(@, json_filename, iterencode(JsonChunks(journal_data)))]
    /\ pc' = "zip"
    /\ UNCHANGED <<archive_tweets, media_path, tweets, media_errors, entries,
                   out_zip, exc, fm_item, fm_result>>

\* for f in dir.glob('*'): export_zip.write(f, f'<prefix>/{f.name}')
ZipMembers(files) == files

\* with zipfile.ZipFile(output_path, 'w') as export_zip: ...
WriteZip ==
    /\ pc = "zip"
    /\ out_zip' = [json_name |-> json_filename,
                   json |-> (CHOOSE f \in fs.root_files : f.name = json_filename).bytes,
                   photos |-> ZipMembers(fs.photo_files),
                   videos |-> ZipMembers(fs.video_files)]
    /\ pc' = "finally"
    /\ UNCHANGED <<archive_tweets, media_path, tweets, media_errors, fs, entries,
                   exc, fm_item, fm_result>>

\* shutil.rmtree(self.temp_dir)
rmtree(fsys) == EmptyFs

\* finally: self._cleanup_temp_dir(); then the call returns or re-raises
Cleanup ==
    /\ pc = "finally"
    /\ fs' = IF fs.temp THEN rmtree(fs) ELSE fs
    /\ pc' = "done"
    /\ UNCHANGED <<archive_tweets, media_path, tweets, media_errors, entries,
                   out_zip, exc, fm_item, fm_result>>

\* KeyboardInterrupt raised once the three mkdir calls have returned and
\* before the try statement is entered, or while the finally clause runs:
\* nothing handles it and the call ends there
InterruptOutsideTry ==
    /\ pc \in {"try", "finally"}
    /\ exc' = "KeyboardInterrupt"
    /\ pc' = "done"
    /\ UNCHANGED <<archive_tweets, media_path, tweets, media_errors, fs, entries,
                   out_zip, fm_item, fm_result>>

\* KeyboardInterrupt raised between two statements of the try block: the
\* finally clause runs the cleanup and the interrupt propagates
InterruptInTry ==
    /\ pc \in {"convert", "zip"}
    /\ exc' = "KeyboardInterrupt"
    /\ fs' = IF fs.temp THEN rmtree(fs) ELSE fs
    /\ pc' = "done"
    /\ UNCHANGED <<archive_tweets, media_path, tweets, media_errors, entries,
                   out_zip, fm_item, fm_result>>

Next ==
    \/ load_twitter_data
    \/ MakeDirs
    \/ EnterTry
    \/ ConvertNext
    \/ WriteJson
    \/ WriteZip
    \/ Cleanup
    \/ InterruptOutsideTry
    \/ InterruptInTry

Spec == Init /\ [][Next]_vars

(***************************************************************************)
(* Direct calls of find_media_file on arbitrary directory contents.        *)
(***************************************************************************)
FindTweetIds == { <<"1">>, <<>> }

\* the URL basenames: one extension, none, two dots, another stem
FindUrls ==
    { <<"h", "/", "m", "/", "a", ".", "j">>,
      <<"h", "/", "a">>,
      <<"a", ".", "b", ".", "j">>,
      <<"h", "/", "b", ".", "j">> }

FindItems ==
    { [media_url_https |-> u, id_str |-> t] : u \in FindUrls, t \in FindTweetIds }

FindNames ==
    { <<"1", "-", "a", ".", "j">>, <<"a", ".", "j">>, <<"1", "-", "a", ".", "p">>,
      <<"1", "-", "a">>, <<"a">>, <<"1", "-", "a", ".">>, <<"-", "a", ".", "j">>,
      <<"-", "a", ".", "p">>, <<"1", "-", "a", "b", ".", "j">>,
      <<"a", ".", "b", ".", "j">>, <<"1", "-", "a", ".", "b", ".", "j">>,
      <<"b", ".", "j">>, <<"1", "-", "b", ".", "p">>, <<"2", "-", "a", ".", "j">> }

RECURSIVE Listings(_)
Listings(n) ==
    IF n = 0 THEN {<<>>}
    ELSE LET S == Listings(n - 1) IN
         S \cup UNION { { Append(s, File(nm, "c1")) :
                              nm \in {m \in FindNames : ~Exists(s, m)} } :
                          s \in {x \in S : Len(x) = n - 1} }

InitFind ==
    /\ media_path \in Listings(MaxFiles)
    /\ fm_item \in FindItems
    /\ fm_result = None
    /\ pc = "find"
    /\ archive_tweets = <<>>
    /\ tweets = <<>>
    /\ media_errors = <<>>
    /\ fs = EmptyFs
    /\ entries = <<>>
    /\ out_zip = PriorArchive
    /\ exc = "none"

FindMediaFile ==
    /\ pc = "find"
    /\ fm_result' = find_media_file(fm_item, media_path)
    /\ pc' = "found"
    /\ UNCHANGED <<archive_tweets, media_path, tweets, media_errors, fs, entries,
                   out_zip, exc, fm_item>>

NextFind == FindMediaFile

SpecFind == InitFind /\ [][NextFind]_vars

(***************************************************************************)
(* Vocabulary of the properties: what the archive on disk says about each  *)
(* media item, stated from the archive as loaded (archive_tweets) and the  *)
(* media directory, not from the run's own variables.                      *)
(***************************************************************************)
Completed == pc = "done" /\ exc = "none"

\* the points at which the entries list has just changed or is final
AfterTurn == pc = "convert" \/ Completed

MediaOf(i) == archive_tweets[i].media

\* the file find_media_file returns for media item k of tweet i
SrcFile(i, k) ==
    find_media_file([media_url_https |-> MediaOf(i)[k].media_url_https,
                     id_str |-> archive_tweets[i].id_str], media_path)

ResolvedIdx(i) == {k \in 1..Len(MediaOf(i)) : SrcFile(i, k) # None}

UnresolvedIdx(i) == {k \in 1..Len(MediaOf(i)) : SrcFile(i, k) = None}

IsVideo(i, k) == MediaOf(i)[k].type = "video"

IsPrefix(p, s) == Len(p) <= Len(s) /\ SubSeq(s, 1, Len(p)) = p

Occurs(p, s) == \E a \in 1..Len(s) : IsPrefix(p, SubSeq(s, a, Len(s)))

CountSym(s, c) == Cardinality({a \in 1..Len(s) : s[a] = c})

Range(s) == {s[a] : a \in 1..Len(s)}

RECURSIVE WarningsOfTweet(_, _)
WarningsOfTweet(i, k) ==
    IF k > Len(MediaOf(i)) THEN <<>>
    ELSE (IF SrcFile(i, k) = None
          THEN << <<archive_tweets[i].id_str, MediaOf(i)[k].media_url_https>> >>
          ELSE <<>>) \o WarningsOfTweet(i, k + 1)

RECURSIVE WarningsUpTo(_)
WarningsUpTo(n) ==
    IF n = 0 THEN <<>> ELSE WarningsUpTo(n - 1) \o WarningsOfTweet(n, 1)

\* the staged name of media item k of tweet i, which resolves
StagedName(i, k) ==
    <<md5(SrcFile(i, k).bytes), IF IsVideo(i, k) THEN ".mp4" ELSE ".jpg">>

\* the files this run stages for the resolved items of its first n tweets
StagedUpTo(n, video) ==
    { File(StagedName(i[1], i[2]), SrcFile(i[1], i[2]).bytes) :
        i \in { x \in (1..n) \X (1..MaxMedia) :
                  /\ x[2] <= Len(MediaOf(x[1]))
                  /\ IsVideo(x[1], x[2]) = video
                  /\ SrcFile(x[1], x[2]) # None } }

(***************************************************************************)
(* C1: whatever way create_export_zip ends, temp_export and its photos/    *)
(* and videos/ subdirectories do not exist once the call has finished.     *)
(* Fails: an interrupt raised after the third mkdir has returned and       *)
(* before the try statement is entered runs no cleanup.                    *)
(***************************************************************************)
C1_NoStagingAfterCall ==
    pc = "done" => ~fs.temp /\ ~fs.photos /\ ~fs.videos

(***************************************************************************)
(* C2: a media item for which find_media_file returns no file adds no      *)
(* metadata record, no inline token and no staged file, and exactly one    *)
(* warning naming the owning tweet's id and the item's URL; the run is not *)
(* aborted by it, and the tweet's text and its resolved items are kept.    *)
(***************************************************************************)
C2_UnresolvedMediaSkipped ==
    /\ AfterTurn =>
         /\ media_errors = WarningsUpTo(Len(entries))
         /\ \A i \in 1..Len(entries) :
              LET n == Cardinality(ResolvedIdx(i)) IN
              /\ Len(entries[i].photos) + Len(entries[i].videos) = n
              /\ CountSym(entries[i].text, "![](") = n
              /\ IsPrefix(archive_tweets[i].full_text, entries[i].text)
    /\ pc = "convert" =>
         /\ fs.photo_files \subseteq
              StaleFs.photo_files \cup StagedUpTo(Len(entries), FALSE)
         /\ fs.video_files \subseteq
              StaleFs.video_files \cup StagedUpTo(Len(entries), TRUE)
    /\ exc = "ValueError" =>
         ~ParsesAsDate(archive_tweets[Len(entries) + 1].created_at)
    /\ pc = "done" /\ exc = "none" => Len(entries) = Len(archive_tweets)

\* a tweet with an unresolved and a resolved item went through a whole run
C2_Witness ==
    /\ Completed
    /\ \E i \in 1..Len(entries) : ResolvedIdx(i) # {} /\ UnresolvedIdx(i) # {}

(***************************************************************************)
(* C3: find_media_file tries {tweet_id}-{basename}, {basename} and         *)
(* {tweet_id}-{basename up to its first dot}.* in this order and returns a *)
(* file matched by the earliest pattern that matches any file; it returns  *)
(* absence exactly when no pattern matches a file.                         *)
(***************************************************************************)
SlashAt(url) == {a \in 1..Len(url) : url[a] = "/"}

\* what follows the last slash of the URL
BasenameOf(url) ==
    LET last == IF SlashAt(url) = {} THEN 0
                ELSE CHOOSE a \in SlashAt(url) : \A b \in SlashAt(url) : b <= a
    IN  SubSeq(url, last + 1, Len(url))

DotAt(base) == {a \in 1..Len(base) : base[a] = "."}

\* the basename without what follows its first dot
StemOf(base) ==
    LET first == IF DotAt(base) = {} THEN Len(base) + 1
                 ELSE CHOOSE a \in DotAt(base) : \A b \in DotAt(base) : a <= b
    IN  SubSeq(base, 1, first - 1)

PatternMatches(k, item, name) ==
    LET base == BasenameOf(item.media_url_https) IN
    CASE k = 1 -> name = item.id_str \o <<"-">> \o base
      [] k = 2 -> name = base
      [] k = 3 -> IsPrefix(item.id_str \o <<"-">> \o StemOf(base) \o <<".">>, name)

MatchedBy(k) ==
    {a \in 1..Len(media_path) : PatternMatches(k, fm_item, media_path[a].name)}

C4_ArchivedBytesMatchIdentifier ==
    Completed =>
      \A i \in 1..Len(archive_tweets) :
        /\ \A m \in Range(entries[i].photos) \cup Range(entries[i].videos) :
             m.identifier = m.md5
        /\ \A k \in ResolvedIdx(i) :
             LET metas == IF IsVideo(i, k) THEN entries[i].videos
                          ELSE entries[i].photos
                 members == IF IsVideo(i, k) THEN out_zip.videos
                            ELSE out_zip.photos
                 ext == IF IsVideo(i, k) THEN ".mp4" ELSE ".jpg"
             IN  \E m \in Range(metas) :
                   \E f \in members :
                     /\ f.name = <<m.identifier, ext>>
                     /\ md5(f.bytes) = m.identifier
                     /\ f.bytes = SrcFile(i, k).bytes

\* a completed run packed a photo and a video
C4_Witness ==
    /\ Completed
    /\ \E i \in 1..Len(entries) :
         entries[i].photos # <<>> /\ entries[i].videos # <<>>

(***************************************************************************)
(* C5: when some tweet's created_at does not parse, the run aborts with    *)
(* that error: nothing is written or changed at the output path and no     *)
(* journal document is written, also when earlier tweets were converted    *)
(* and their media staged.                                                 *)
(***************************************************************************)
BadDates ==
    {i \in 1..Len(archive_tweets) : ~ParsesAsDate(archive_tweets[i].created_at)}

C5_DateErrorAbortsRun ==
    BadDates # {} =>
        /\ out_zip = PriorArchive
        /\ fs.root_files = {}
        /\ \A i \in BadDates : Len(entries) < i
        /\ pc = "done" => exc \in {"ValueError", "KeyboardInterrupt"}

\* the error came after a tweet was converted and its photo staged
C5_Witness ==
    /\ pc = "done" /\ exc = "ValueError"
    /\ Len(entries) >= 1
    /\ entries[1].photos # <<>>

(***************************************************************************)
(* C6 as stated: in the serialized journal of a completed run every        *)
(* locator reads dayone-moment:\/\/{hash} for a photo and                  *)
(* dayone-moment:\/video\/{hash} for a video, and no unescaped             *)
(* dayone-moment:// remains.  Fails for every video.                       *)
(***************************************************************************)
PhotoLocator(h) == <<"![](", "M", "\\", "/", "\\", "/", h, ")">>

EscapedVideoLocator(h) == <<"![](", "M", "\\", "/", "video", "\\", "/", h, ")">>

PlainVideoLocator(h) == <<"![](", "M", "/", "video", "/", h, ")">>

Digests == {"h0", "h1", "h2"}

\* every locator of the text has one of the two given forms, each resolved
\* item's locator is there, and no unescaped double-slash form is left
LocatorsHaveForm(text, VideoForm(_)) ==
    /\ \A a \in 1..Len(text) :
         text[a] = "![](" =>
           \E h \in Digests :
             \/ IsPrefix(PhotoLocator(h), SubSeq(text, a, Len(text)))
             \/ IsPrefix(VideoForm(h), SubSeq(text, a, Len(text)))
    /\ \A i \in 1..Len(archive_tweets) : \A k \in ResolvedIdx(i) :
         LET h == md5(SrcFile(i, k).bytes) IN
         Occurs(IF IsVideo(i, k) THEN VideoForm(h) ELSE PhotoLocator(h), text)
    /\ ~Occurs(<<"M", "/", "/">>, text)

C6_AsStated == Completed => LocatorsHaveForm(out_zip.json, EscapedVideoLocator)

(***************************************************************************)
(* C6 amended: every photo locator reads dayone-moment:\/\/{hash}, every   *)
(* video locator reads dayone-moment:/video/{hash} with its slashes left   *)
(* as they are, and no unescaped dayone-moment:// remains.                 *)
(***************************************************************************)
C6_LocatorForms == Completed => LocatorsHaveForm(out_zip.json, PlainVideoLocator)

\* the journal holds a photo locator, a video locator and the second tweet's
\* own quoted locator
C6_Witness ==
    /\ Completed
    /\ Len(entries) >= 2
    /\ \E i \in 1..Len(entries) : entries[i].photos # <<>>
    /\ \E i \in 1..Len(entries) : entries[i].videos # <<>>

(***************************************************************************)
(* C7: when the run completes the entries list has one entry per tweet and *)
(* the i-th entry is made from the i-th tweet.                             *)
(***************************************************************************)
C7_EntriesFollowTweets ==
    /\ Len(entries) <= Len(archive_tweets)
    /\ \A i \in 1..Len(entries) :
         /\ entries[i].creationDate = <<"iso", DateSyms[i]>>
         /\ IsPrefix(archive_tweets[i].full_text, entries[i].text)
    /\ Completed => Len(entries) = Len(archive_tweets)

\* two tweets, the first with media of which none resolved
C7_Witness ==
    /\ Completed
    /\ Len(entries) >= 2
    /\ MediaOf(1) # <<>> /\ ResolvedIdx(1) = {}

TokenOf(i, k) ==
    LET h == md5(SrcFile(i, k).bytes) IN
    IF IsVideo(i, k) THEN <<"![](", "M", "/", "video", "/", h, ")">>
    ELSE <<"![](", "M", "/", "/", h, ")">>

RECURSIVE TextFrom(_, _)
TextFrom(i, k) ==
    IF k > Len(MediaOf(i)) THEN <<>>
    ELSE (IF SrcFile(i, k) # None THEN <<"NL2">> \o TokenOf(i, k) ELSE <<>>)
         \o TextFrom(i, k + 1)

C9_TweetsUnchanged ==
    pc # "new" => tweets = archive_tweets

(***************************************************************************)
(* C10: when conversion begins the staging photos/ and videos/ are empty,  *)
(* and the archive's photos/ and videos/ hold exactly the files staged for *)
(* the media resolved in this run.  Fails: the directories are created     *)
(* with exist_ok and keep what an earlier run left.                        *)
(***************************************************************************)
C10_StagingStartsEmpty ==
    /\ pc = "convert" /\ entries = <<>> =>
         fs.photo_files = {} /\ fs.video_files = {}
    /\ Completed =>
         /\ out_zip.photos = StagedUpTo(Len(archive_tweets), FALSE)
         /\ out_zip.videos = StagedUpTo(Len(archive_tweets), TRUE)

====
